---- MODULE Spec2Model ----
(***************************************************************************)
(* TerraPerf waitlist service.                                             *)
(*                                                                         *)
(* Two entrypoints over one persisted collection of entries keyed by email:*)
(*   - api/waitlist_api.py         (FastAPI; JSON file when IS_LOCAL, a    *)
(*                                  DynamoDB table otherwise)              *)
(*   - api/lambda/lambda_handler.py (Lambda; DynamoDB table)               *)
(*                                                                         *)
(* A deployment is one of three modes: "file" (FastAPI, IS_LOCAL),         *)
(* "api_remote" (FastAPI, not IS_LOCAL) and "lambda".  Requests are run by *)
(* worker processes; every storage call is one atomic step, and the code   *)
(* between two storage calls is local to the request.                      *)
(*                                                                         *)
(* Strings that the code inspects character by character (emails) are      *)
(* sequences of one-character strings.  JSON values whose type matters     *)
(* (consent) are written as tagged strings: "true", "false", "absent",     *)
(* "str:yes", "num:0".                                                     *)
(***************************************************************************)
EXTENDS Integers, Sequences, FiniteSets, TLC

VARIABLES
    mode,         \* the deployment: "file", "api_remote" or "lambda"
    file,         \* WAITLIST_FILE
    tableExists,  \* the DynamoDB table named by WAITLIST_TABLE exists
    table,        \* the items of the DynamoDB table
    procs,        \* per worker: the request it is handling
    last,         \* the response returned last, with its request
    clock,        \* the time, in requests accepted so far
    nextId,       \* the uuid4() values drawn so far, plus one
    overlapped,   \* two requests have been in flight at the same time
    deregistered, \* the emails a deregister has answered 200 for
    latest        \* per email: the operation answered 200 last for it

vars ==
    <<mode, file, tableExists, table, procs, last, clock, nextId, overlapped,
      deregistered, latest>>

\* ------------------------------------------------------------------ bounds

\* Requests accepted in one behaviour (also the range of the clock).
MaxRequests == 3

\* Worker processes that can hold a request at the same time.
Procs == {"w1", "w2"}

Modes == {"file", "api_remote", "lambda"}

\* ------------------------------------------------------------ characters

Absent == "absent"

Whitespace == {" "}

\* The letters, of [a-zA-Z], that occur in the inputs below.
Letters == {"a", "b", "c", "o", "A", "B"}

Digits == {"0", "1"}

LowerChar(c) == CASE c = "A" -> "a" [] c = "B" -> "b" [] OTHER -> c

\* str.lower()
lower(s) == [i \in 1..Len(s) |-> LowerChar(s[i])]

SetMin(S) == CHOOSE x \in S : \A y \in S : x <= y

SetMax(S) == CHOOSE x \in S : \A y \in S : x >= y

\* str.strip()
strip(s) ==
    LET keep == {i \in 1..Len(s) : s[i] \notin Whitespace}
    IN  IF keep = {} THEN <<>> ELSE SubSeq(s, SetMin(keep), SetMax(keep))

AllIn(s, C) == \A i \in 1..Len(s) : s[i] \in C

\* ---------------------------------------------------------------- emails

MaxEmailLen == 254

\* EMAIL_REGEX = ^[a-zA-Z0-9._%+-]+@[a-zA-Z0-9.-]+\.[a-zA-Z]{2,}$
LocalChars == Letters \cup Digits \cup {".", "_", "%", "+", "-"}

DomainChars == Letters \cup Digits \cup {".", "-"}

EMAIL_REGEX_match(s) ==
    \E i \in 1..Len(s), j \in 1..Len(s) :
        /\ s[i] = "@"
        /\ s[j] = "."
        /\ 1 < i
        /\ i + 1 < j
        /\ j + 2 <= Len(s)
        /\ AllIn(SubSeq(s, 1, i - 1), LocalChars)
        /\ AllIn(SubSeq(s, i + 1, j - 1), DomainChars)
        /\ AllIn(SubSeq(s, j + 1, Len(s)), Letters)

\* lambda_handler.validate_email
validate_email(email) ==
    IF email = <<>> \/ Len(email) > MaxEmailLen
    THEN FALSE
    ELSE EMAIL_REGEX_match(email)

\* pydantic EmailStr: the value is stripped and checked by the email-validator
\* library (dot-atom local part, dot-separated domain labels, at least one
\* dot in the domain); the validated value has its domain lowercased and its
\* local part as given.
AtomChars == Letters \cup Digits \cup {"_", "%", "+", "-", "!", "#"}

DotAtom(s, C) ==
    /\ s # <<>>
    /\ AllIn(s, C \cup {"."})
    /\ s[1] # "."
    /\ s[Len(s)] # "."
    /\ \A i \in 1..(Len(s) - 1) : ~(s[i] = "." /\ s[i + 1] = ".")

EmailStrParts(raw) ==
    LET s   == strip(raw)
        ats == {i \in 1..Len(s) : s[i] = "@"}
    IN  IF ats = {}
        THEN [ok |-> FALSE, local |-> <<>>, domain |-> <<>>]
        ELSE LET i == SetMax(ats)
                 l == SubSeq(s, 1, i - 1)
                 d == SubSeq(s, i + 1, Len(s))
             IN  [ok |-> /\ Len(s) <= MaxEmailLen
                         /\ DotAtom(l, AtomChars)
                         /\ DotAtom(d, Letters \cup Digits \cup {"-"})
                         /\ \E k \in 1..Len(d) : d[k] = ".",
                  local |-> l, domain |-> d]

EmailStrValid(raw) == EmailStrParts(raw).ok

EmailStrValue(raw) ==
    LET p == EmailStrParts(raw) IN p.local \o <<"@">> \o lower(p.domain)

\* The raw email strings requests carry.
E_a == <<"a", "@", "b", ".", "c", "o">>

E_A == <<"A", "@", "B", ".", "c", "o">>

E_sp == <<" ", "a", "@", "b", ".", "c", "o", " ">>

E_c == <<"c", "@", "b", ".", "c", "o">>

E_bad == <<"a", "b">>

E_empty == <<>>

RawEmails == {E_a, E_A, E_sp, E_c, E_bad, E_empty}

\* ---------------------------------------------------------- JSON values

\* The values the "consent" member of a request body takes.
ConsentValues == {"true", "false", Absent, "str:yes", "num:0"}

Truthy_nonnull(v) == v # Absent

\* bool(v) of a Python value: lambda_handler's `if not consent`.
Truthy(v) == v \in {"true", "str:yes"}

\* pydantic's `consent: bool` in its default (lax) mode: JSON booleans, the
\* integers 0 and 1 and the strings "yes", "no", ... become a bool; a missing
\* member is an error.
BoolCoercible(v) == v \in {"true", "false", "str:yes", "num:0"}

BoolCoerce(v) == IF v \in {"true", "str:yes"} THEN "true" ELSE "false"

ClientTs == [by |-> "client", at |-> 0]

ServerTs(n) == [by |-> "server", at |-> n]

DefaultSource == "landing_page"

\* The register bodies requests carry: every email in a full body with
\* consent true; one email with each optional member left out; two emails
\* with every other consent value.
RegisterBodies ==
    [shape : {"object"}, email : RawEmails, consent : {"true"},
     consent_timestamp : {"client"}, source : {"ad"}, ip : {"10.0.0.1"}]
    \cup
    [shape : {"object"}, email : {E_a}, consent : {"true"},
     consent_timestamp : {"client"}, source : {Absent}, ip : {Absent}]
    \cup
    [shape : {"object"}, email : {E_a}, consent : {"true"},
     consent_timestamp : {Absent}, source : {"ad"}, ip : {"10.0.0.1"}]
    \cup
    [shape : {"object"}, email : {E_a, E_bad}, consent : ConsentValues \ {"true"},
     consent_timestamp : {"client"}, source : {"ad"}, ip : {"10.0.0.1"}]

\* The shapes of the "body" member of a Lambda event: a JSON object; no
\* "body" key; null; text that is not JSON; JSON that is not an object;
\* an object whose "email" is a number.
BodyShapes == {"object", "no_body", "null", "text", "array", "email_number"}

\* Outcomes of one DynamoDB call: it returns, or raises ClientError with
\* this error code.  ResourceNotFoundException is what DynamoDB raises for a
\* table that does not exist; any call can fail for a service-side reason.
CallOutcomes ==
    IF tableExists
    THEN {"ok", "InternalServerError"}
    ELSE {"ResourceNotFoundException"}

\* ------------------------------------------------------------------ state

NoBody ==
    [shape |-> "no_body", email |-> <<>>, consent |-> Absent,
     consent_timestamp |-> Absent, source |-> Absent, ip |-> Absent]

\* The POST bodies of the Lambda entrypoint that are not an object with a
\* string email; their other members are left out.
OddBodies == {[NoBody EXCEPT !.shape = s] : s \in BodyShapes \ {"object"}}

\* A DELETE request carries the email in its path and no body.
DeleteRequest(raw) == [NoBody EXCEPT !.email = raw]

IdleProc ==
    [pc |-> "idle", op |-> "none", n |-> 0, body |-> NoBody, email |-> <<>>,
     consent |-> Absent, consent_timestamp |-> ClientTs, source |-> Absent,
     ip_address |-> Absent, id |-> 0, entries |-> <<>>, faulted |-> FALSE]

NoResponse ==
    [n |-> 0, proc |-> "none", op |-> "none", body |-> NoBody,
     status |-> 0, detail |-> "", errs |-> {}, id |-> 0, count |-> -1,
     faulted |-> FALSE]

NoFile == [kind |-> "missing", entries |-> <<>>]

\* WAITLIST_FILE with content json.loads rejects (JSONDecodeError), such as
\* the empty file write_text leaves between truncating and writing.
MalformedFile == [kind |-> "malformed", entries |-> <<>>]

JsonFile(entries) == [kind |-> "json", entries |-> entries]

Init ==
    /\ mode \in Modes
    /\ file \in (IF mode = "file" THEN {NoFile, MalformedFile} ELSE {NoFile})
    /\ tableExists \in (IF mode = "file" THEN {FALSE} ELSE BOOLEAN)
    /\ table = {}
    /\ procs = [p \in Procs |-> IdleProc]
    /\ last = NoResponse
    /\ clock = 0
    /\ nextId = 1
    /\ overlapped = FALSE
    /\ deregistered = {}
    /\ latest = [e \in {strip(lower(raw)) : raw \in RawEmails} |-> "none"]

\* A worker takes a new request.
Accepts(p) ==
    /\ procs[p].pc = "idle"
    /\ clock < MaxRequests

\* The response of worker p to request number n.
Response(p, n, op, body, status, detail, errs, id, count, faulted) ==
    [n |-> n, proc |-> p, op |-> op, body |-> body,
     status |-> status, detail |-> detail, errs |-> errs, id |-> id,
     count |-> count, faulted |-> faulted]

Respond(p, r) ==
    /\ last' = r
    /\ procs' = [procs EXCEPT ![p] = IdleProc]

\* The response to the request worker p holds.
Reply(p, status, detail, id, faulted) ==
    Response(p, procs[p].n, procs[p].op, procs[p].body, status, detail, {}, id, -1,
             faulted)

\* Requests in flight.
InFlight == {q \in Procs : procs[q].pc # "idle"}

\* Records whether requests have overlapped so far, the emails a
\* deregister has answered 200 for, and per email the operation that was
\* answered 200 last.
Track ==
    /\ overlapped' = (overlapped \/ Cardinality(InFlight') > 1)
    /\ deregistered' =
           IF last' # last /\ last'.op = "deregister" /\ last'.status = 200
           THEN deregistered \cup {strip(lower(last'.body.email))}
           ELSE deregistered
    /\ latest' =
           IF /\ last' # last
              /\ last'.op \in {"register", "deregister"}
              /\ last'.status = 200
           THEN [latest EXCEPT ![strip(lower(last'.body.email))] = last'.op]
           ELSE latest

\* ------------------------------------------------------- storage adapters

IS_LOCAL == mode = "file"

load_waitlist_entries_unread == <<>>

\* load_waitlist(): the entries it returns.
load_waitlist_entries ==
    IF ~IS_LOCAL THEN <<>>
    ELSE IF file.kind = "json" THEN file.entries ELSE <<>>

\* load_waitlist(): the file it leaves (created when absent, in local mode).
load_waitlist_file ==
    IF IS_LOCAL /\ file.kind = "missing" THEN JsonFile(<<>>) ELSE file

\* save_waitlist(entries)
save_waitlist(entries) == IF ~IS_LOCAL THEN file ELSE JsonFile(entries)

\* email_exists(email, entries)
email_exists(email, entries) ==
    \E i \in 1..Len(entries) : lower(entries[i].email) = lower(email)

get_item_miss(email) == {}

\* table.get_item(Key={"email": email}): the items under the key.
get_item(email) == {it \in table : it.email = email}

put_item_if_absent(item) ==
    IF \E it \in table : it.email = item.email THEN table ELSE table \cup {item}

\* table.put_item(Item=item): replaces the item under the same key.
put_item(item) == {it \in table : it.email # item.email} \cup {item}

delete_item_kept(email) == table

\* table.delete_item(Key={"email": email})
delete_item(email) == {it \in table : it.email # email}

\* table.scan(Select="COUNT")
scan_count == Cardinality(table)

\* get_client_ip
get_client_ip(ip) == IF ip = Absent THEN "unknown" ELSE ip

\* The record a register request stores.
Entry(email, id, consent, ts, source, ip, created) ==
    [email |-> email, id |-> id, consent |-> consent, consent_timestamp |-> ts,
     source |-> source, ip_address |-> ip, created_at |-> created]

\* The item a pending register request q writes at time `created`.
ItemOf(q, created) ==
    Entry(q.email, q.id, q.consent, q.consent_timestamp, q.source, q.ip_address,
          created)

\* A request that passed its existence check and waits for its write.
Pending(n, op, body, email, consent, ts, source, ip, id, entries, faulted) ==
    [pc |-> "write", op |-> op, n |-> n, body |-> body,
     email |-> email, consent |-> consent, consent_timestamp |-> ts,
     source |-> source, ip_address |-> ip, id |-> id, entries |-> entries,
     faulted |-> faulted]

PendingDelete_rawkey(n, raw, email, entries) ==
    Pending(n, "deregister", DeleteRequest(raw), raw, Absent, ClientTs, Absent,
            Absent, 0, entries, FALSE)

\* A deregister request that found its email and waits for its write.
PendingDelete(n, raw, email, entries) ==
    Pending(n, "deregister", DeleteRequest(raw), email, Absent, ClientTs, Absent,
            Absent, 0, entries, FALSE)

\* --------------------------------------------- api/waitlist_api.py (FastAPI)

ConflictDetail == "This email is already on the waitlist."

ConsentDetail == "Consent must be given to join the waitlist"

InvalidEmailDetail == "Invalid email address"

AddedMessage == "You've been added to our waiting list!"

RemovedMessage == "Email removed from waitlist"

\* The members of the body that fail WaitlistEntry's validation.
WaitlistEntry_errors(body) ==
    (IF EmailStrValid(body.email) THEN {} ELSE {"email"})
    \cup (IF BoolCoercible(body.consent) /\ BoolCoerce(body.consent) = "true"
          THEN {} ELSE {"consent"})
    \cup (IF body.consent_timestamp = Absent THEN {"consent_timestamp"} ELSE {})

\* The count GET /waitlist of the FastAPI entrypoint reports.
get_waitlist_stats_total == Len(load_waitlist_entries)

\* GET /waitlist
get_waitlist_stats(p) ==
    /\ mode \in {"file", "api_remote"}
    /\ Accepts(p)
    /\ clock' = clock + 1
    /\ file' = load_waitlist_file
    /\ Respond(p, Response(p, clock + 1, "stats", NoBody, 200, "", {}, 0,
                           get_waitlist_stats_total, FALSE))
    /\ UNCHANGED <<mode, tableExists, table, nextId>>
    /\ Track

\* POST /waitlist, local mode, from load_waitlist() on.
subscribe_local(p, n, body, email) ==
    LET entries == load_waitlist_entries
        new_entry == Entry(email, nextId, BoolCoerce(body.consent), ClientTs,
                           IF body.source = Absent THEN DefaultSource ELSE body.source,
                           get_client_ip(body.ip), n)
    IN  /\ file' = load_waitlist_file
        /\ table' = table
        /\ IF email_exists(email, entries)
           THEN /\ Respond(p, Response(p, n, "register", body, 400, ConflictDetail,
                                       {}, 0, -1, FALSE))
                /\ nextId' = nextId
           ELSE /\ procs' = [procs EXCEPT ![p] =
                      Pending(n, "register", body, email,
                              new_entry.consent, new_entry.consent_timestamp,
                              new_entry.source, new_entry.ip_address, nextId,
                              Append(entries, new_entry), FALSE)]
                /\ nextId' = nextId + 1
                /\ last' = last

\* POST /waitlist, production mode, from table.get_item on.  A
\* ResourceNotFoundException of get_item is passed over.
subscribe_remote(p, n, body, email) ==
    \E f \in CallOutcomes :
        /\ UNCHANGED <<file, table>>
        /\ IF f = "ok" /\ get_item(email) # {}
           THEN /\ Respond(p, Response(p, n, "register", body, 400, ConflictDetail,
                                       {}, 0, -1, FALSE))
                /\ nextId' = nextId
           ELSE IF f \in {"ok", "ResourceNotFoundException"}
           THEN /\ procs' = [procs EXCEPT ![p] =
                      Pending(n, "register", body, email,
                              BoolCoerce(body.consent), ClientTs,
                              IF body.source = Absent THEN DefaultSource
                              ELSE body.source,
                              get_client_ip(body.ip), nextId, <<>>, f # "ok")]
                /\ nextId' = nextId + 1
                /\ last' = last
           ELSE /\ Respond(p, Response(p, n, "register", body, 500,
                                       "Database error", {}, 0, -1, TRUE))
                /\ nextId' = nextId

subscribe_email_nolower(body) == strip(EmailStrValue(body.email))

\* POST /waitlist: email = entry.email.lower().strip()
subscribe_email(body) == strip(lower(EmailStrValue(body.email)))

\* POST /waitlist: the body is validated as a WaitlistEntry, then the
\* handler runs up to and including its existence check.
subscribe(p, body) ==
    /\ mode \in {"file", "api_remote"}
    /\ Accepts(p)
    /\ clock' = clock + 1
    /\ UNCHANGED <<mode, tableExists>>
    /\ LET errs == WaitlistEntry_errors(body)
           email == subscribe_email(body)
       IN  IF errs # {}
           THEN /\ Respond(p, Response(p, clock + 1, "register", body, 422,
                                       "validation", errs, 0, -1, FALSE))
                /\ UNCHANGED <<file, table, nextId>>
           ELSE IF IS_LOCAL
           THEN subscribe_local(p, clock + 1, body, email)
           ELSE subscribe_remote(p, clock + 1, body, email)
    /\ Track

\* POST /waitlist, local mode: save_waitlist(entries) and the response.
subscribe_save(p) ==
    /\ mode = "file"
    /\ procs[p].pc = "write"
    /\ procs[p].op = "register"
    /\ file' = save_waitlist(procs[p].entries)
    /\ Respond(p, Reply(p, 200, AddedMessage, procs[p].id, procs[p].faulted))
    /\ UNCHANGED <<mode, tableExists, table, clock, nextId>>
    /\ Track

\* POST /waitlist, production mode: table.put_item and the response.
subscribe_put(p) ==
    /\ mode = "api_remote"
    /\ procs[p].pc = "write"
    /\ procs[p].op = "register"
    /\ \E f \in CallOutcomes :
           IF f = "ok"
           THEN /\ table' = put_item(ItemOf(procs[p], clock))
                /\ Respond(p, Reply(p, 200, AddedMessage, procs[p].id,
                                    procs[p].faulted))
           ELSE /\ table' = table
                /\ Respond(p, Reply(p, 500, "Failed to save to database", 0, TRUE))
    /\ UNCHANGED <<mode, file, tableExists, clock, nextId>>
    /\ Track

\* DELETE /waitlist/{email}, local mode, from load_waitlist() on.
unsubscribe_local(p, n, raw, email) ==
    LET loaded == load_waitlist_entries
        entries == SelectSeq(loaded, LAMBDA e : lower(e.email) # email)
    IN  /\ file' = load_waitlist_file
        /\ table' = table
        /\ IF Len(entries) = Len(loaded)
           THEN Respond(p, Response(p, n, "deregister", DeleteRequest(raw), 404,
                                    "Email not found", {}, 0, -1, FALSE))
           ELSE /\ procs' = [procs EXCEPT ![p] = PendingDelete(n, raw, email, entries)]
                /\ last' = last

\* DELETE /waitlist/{email}, production mode: table.delete_item and the
\* response.
unsubscribe_remote(p, n, raw, email) ==
    \E f \in CallOutcomes :
        /\ file' = file
        /\ IF f = "ok"
           THEN /\ table' = delete_item(email)
                /\ Respond(p, Response(p, n, "deregister", DeleteRequest(raw), 200,
                                       RemovedMessage, {}, 0, -1, FALSE))
           ELSE /\ table' = table
                /\ Respond(p, Response(p, n, "deregister", DeleteRequest(raw), 500,
                                       "Failed to remove from database", {}, 0, -1,
                                       TRUE))

\* DELETE /waitlist/{email}; the route matches a non-empty path segment.
unsubscribe(p, raw) ==
    /\ mode \in {"file", "api_remote"}
    /\ raw # <<>>
    /\ Accepts(p)
    /\ clock' = clock + 1
    /\ UNCHANGED <<mode, tableExists, nextId>>
    /\ LET email == strip(lower(raw))
       IN  IF IS_LOCAL
           THEN unsubscribe_local(p, clock + 1, raw, email)
           ELSE unsubscribe_remote(p, clock + 1, raw, email)
    /\ Track

\* DELETE /waitlist/{email}, local mode: save_waitlist(entries) and the
\* response.
unsubscribe_save(p) ==
    /\ mode = "file"
    /\ procs[p].pc = "write"
    /\ procs[p].op = "deregister"
    /\ file' = save_waitlist(procs[p].entries)
    /\ Respond(p, Reply(p, 200, RemovedMessage, 0, procs[p].faulted))
    /\ UNCHANGED <<mode, tableExists, table, clock, nextId>>
    /\ Track

\* ------------------------------------- api/lambda/lambda_handler.py (Lambda)

\* The count GET /waitlist of the Lambda entrypoint reports.
handle_get_stats_total == scan_count

\* GET /waitlist
handle_get_stats(p) ==
    /\ mode = "lambda"
    /\ Accepts(p)
    /\ clock' = clock + 1
    /\ \E f \in CallOutcomes :
           IF f = "ok"
           THEN Respond(p, Response(p, clock + 1, "stats", NoBody, 200, "", {}, 0,
                                    handle_get_stats_total, FALSE))
           ELSE Respond(p, Response(p, clock + 1, "stats", NoBody, 500,
                                    "Database error", {}, 0, -1, TRUE))
    /\ UNCHANGED <<mode, file, tableExists, table, nextId>>
    /\ Track

normalize_nolower(raw) == strip(raw)

\* The email a Lambda request names: .lower().strip()
normalize(raw) == strip(lower(raw))

\* What reading the email out of the event's body does: json.loads of text
\* that is not JSON raises JSONDecodeError, json.loads(None) raises
\* TypeError, .get of a list and .lower of a number raise AttributeError.
body_email_outcome(body) ==
    CASE body.shape = "text" -> "JSONDecodeError"
      [] body.shape = "null" -> "TypeError"
      [] body.shape \in {"array", "email_number"} -> "AttributeError"
      [] OTHER -> "ok"

\* The status of a request whose handler raised: no response is returned.
Escaped == 0

\* POST /waitlist: validation, then table.get_item.
handle_subscribe(p, body) ==
    /\ mode = "lambda"
    /\ Accepts(p)
    /\ clock' = clock + 1
    /\ UNCHANGED <<mode, file, tableExists, table>>
    /\ LET n == clock + 1
           email == normalize(body.email)
           consent == IF body.consent = Absent THEN "false" ELSE body.consent
           consent_timestamp == IF body.consent_timestamp = Absent
                                THEN ServerTs(n) ELSE ClientTs
           source == IF body.source = Absent THEN DefaultSource ELSE body.source
           Return(status, detail, faulted) ==
               /\ Respond(p, Response(p, n, "register", body, status, detail, {}, 0,
                                      -1, faulted))
               /\ nextId' = nextId
       IN  IF body_email_outcome(body) = "JSONDecodeError"
           THEN Return(400, "Invalid JSON body", FALSE)
           ELSE IF body_email_outcome(body) # "ok"
           THEN Return(Escaped, body_email_outcome(body), FALSE)
           ELSE IF ~validate_email(email)
           THEN Return(400, InvalidEmailDetail, FALSE)
           ELSE IF ~Truthy(consent)
           THEN Return(400, ConsentDetail, FALSE)
           ELSE \E f \in CallOutcomes :
                    IF f # "ok"
                    THEN Return(500, "Database error", TRUE)
                    ELSE IF get_item(email) # {}
                    THEN Return(400, ConflictDetail, FALSE)
                    ELSE /\ procs' = [procs EXCEPT ![p] =
                               Pending(n, "register", body, email, consent,
                                       consent_timestamp, source,
                                       get_client_ip(body.ip), nextId, <<>>, FALSE)]
                         /\ nextId' = nextId + 1
                         /\ last' = last
    /\ Track

\* POST /waitlist: table.put_item and the response.
handle_subscribe_put(p) ==
    /\ mode = "lambda"
    /\ procs[p].pc = "write"
    /\ procs[p].op = "register"
    /\ \E f \in CallOutcomes :
           IF f = "ok"
           THEN /\ table' = put_item(ItemOf(procs[p], clock))
                /\ Respond(p, Reply(p, 200, AddedMessage, procs[p].id,
                                    procs[p].faulted))
           ELSE /\ table' = table
                /\ Respond(p, Reply(p, 500, "Failed to save to database", 0, TRUE))
    /\ UNCHANGED <<mode, file, tableExists, clock, nextId>>
    /\ Track

\* DELETE /waitlist/{email}: validation, then table.get_item.
handle_unsubscribe(p, raw) ==
    /\ mode = "lambda"
    /\ Accepts(p)
    /\ clock' = clock + 1
    /\ UNCHANGED <<mode, file, tableExists, table, nextId>>
    /\ LET n == clock + 1
           email == normalize(raw)
           Return(status, detail, faulted) ==
               Respond(p, Response(p, n, "deregister", DeleteRequest(raw), status,
                                   detail, {}, 0, -1, faulted))
       IN  IF ~validate_email(email)
           THEN Return(400, InvalidEmailDetail, FALSE)
           ELSE \E f \in CallOutcomes :
                    IF f # "ok"
                    THEN Return(500, "Failed to remove from database", TRUE)
                    ELSE IF get_item(email) = {}
                    THEN Return(404, "Email not found", FALSE)
                    ELSE /\ procs' = [procs EXCEPT ![p] =
                               PendingDelete(n, raw, email, <<>>)]
                         /\ last' = last
    /\ Track

\* DELETE /waitlist/{email}: table.delete_item and the response.
handle_unsubscribe_delete(p) ==
    /\ mode = "lambda"
    /\ procs[p].pc = "write"
    /\ procs[p].op = "deregister"
    /\ \E f \in CallOutcomes :
           IF f = "ok"
           THEN /\ table' = delete_item(procs[p].email)
                /\ Respond(p, Reply(p, 200, RemovedMessage, 0, procs[p].faulted))
           ELSE /\ table' = table
                /\ Respond(p, Reply(p, 500, "Failed to remove from database", 0,
                                    TRUE))
    /\ UNCHANGED <<mode, file, tableExists, clock, nextId>>
    /\ Track

\* GET /
handle_health(p) ==
    /\ mode = "lambda"
    /\ Accepts(p)
    /\ clock' = clock + 1
    /\ Respond(p, Response(p, clock + 1, "health", NoBody, 200, "ok", {}, 0, -1,
                           FALSE))
    /\ UNCHANGED <<mode, file, tableExists, table, nextId>>
    /\ Track

\* handler: any other method and path.
handler_not_found(p) ==
    /\ mode = "lambda"
    /\ Accepts(p)
    /\ clock' = clock + 1
    /\ Respond(p, Response(p, clock + 1, "other", NoBody, 404, "Not found", {}, 0,
                           -1, FALSE))
    /\ UNCHANGED <<mode, file, tableExists, table, nextId>>
    /\ Track

\* ---------------------------------------------------------- specification

Next ==
    \E p \in Procs :
        \/ get_waitlist_stats(p)
        \/ \E body \in RegisterBodies : subscribe(p, body)
        \/ subscribe_save(p)
        \/ subscribe_put(p)
        \/ \E raw \in RawEmails : unsubscribe(p, raw)
        \/ unsubscribe_save(p)
        \/ handle_get_stats(p)
        \/ \E body \in RegisterBodies \cup OddBodies : handle_subscribe(p, body)
        \/ handle_subscribe_put(p)
        \/ \E raw \in RawEmails : handle_unsubscribe(p, raw)
        \/ handle_unsubscribe_delete(p)
        \/ handle_health(p)
        \/ handler_not_found(p)

\* Requests of any number of workers overlap.
Spec == Init /\ [][Next]_vars

\* Requests do not overlap: a request is accepted when no other is in flight.
Alone(A) == A /\ ~overlapped'

SeqNext ==
    \E p \in Procs :
        \/ Alone(get_waitlist_stats(p))
        \/ \E body \in RegisterBodies : Alone(subscribe(p, body))
        \/ Alone(subscribe_save(p))
        \/ Alone(subscribe_put(p))
        \/ \E raw \in RawEmails : Alone(unsubscribe(p, raw))
        \/ Alone(unsubscribe_save(p))
        \/ Alone(handle_get_stats(p))
        \/ \E body \in RegisterBodies \cup OddBodies :
               Alone(handle_subscribe(p, body))
        \/ Alone(handle_subscribe_put(p))
        \/ \E raw \in RawEmails : Alone(handle_unsubscribe(p, raw))
        \/ Alone(handle_unsubscribe_delete(p))
        \/ Alone(handle_health(p))
        \/ Alone(handler_not_found(p))

SeqSpec == Init /\ [][SeqNext]_vars

\* ------------------------------------------------- vocabulary of the claims

\* The identity of an entry: its email lowercased and trimmed.
Identity(raw) == strip(lower(raw))

\* Structural validity of an email: non-empty, at most 254 characters,
\* localpart@domain.tld.
ValidEmail(raw) ==
    LET e == Identity(raw)
    IN  e # <<>> /\ Len(e) <= MaxEmailLen /\ EMAIL_REGEX_match(e)

\* The stored collection of the configured backend.
StoredEntries ==
    IF IS_LOCAL THEN {file.entries[i] : i \in 1..Len(file.entries)} ELSE table

StoredCount == IF IS_LOCAL THEN Len(file.entries) ELSE Cardinality(table)

EntriesOf(e) == {x \in StoredEntries : Identity(x.email) = e}

IsStored(e) == EntriesOf(e) # {}

\* The same, of the state this step leads to.
IsStoredNext(e) == \E x \in StoredEntries' : Identity(x.email) = e

EntriesOfNext(e) == {x \in StoredEntries' : Identity(x.email) = e}

Identities == {Identity(raw) : raw \in RawEmails}

\* The stored collection is left as it was by this step.
StoredSame == file'.entries = file.entries /\ table' = table

\* The request accepted last: answered already, or held by a worker.
NewestAnswered == last.n = clock

NewestHolder == CHOOSE q \in Procs : procs[q].n = clock

NewestOp == IF NewestAnswered THEN last.op ELSE procs[NewestHolder].op

NewestBody == IF NewestAnswered THEN last.body ELSE procs[NewestHolder].body

NewestFaulted == IF NewestAnswered THEN last.faulted ELSE procs[NewestHolder].faulted

\* This step accepts a request.
Arrives == clock' # clock

\* This step returns a response.
Answers == last' # last

\* The register body passes the entrypoint's validation of its members.
PassesValidation(body) ==
    IF mode = "lambda"
    THEN ValidEmail(body.email) /\ body.consent \in {"true", "str:yes"}
    ELSE /\ ValidEmail(body.email)
         /\ body.consent \in {"true", "str:yes"}
         /\ body.consent_timestamp # Absent

\* A validation error: 400 with a validation detail, or FastAPI's 422.
IsValidationError(r) ==
    \/ r.status = 400 /\ r.detail \in {InvalidEmailDetail, ConsentDetail}
    \/ r.status = 422 /\ r.errs # {}

\* ------------------------------------------------------------------ claims

\* C1: in every reachable state, under any interleaving of requests and in
\* every mode, the store holds at most one entry per normalized email.
C1_OneEntryPerEmail ==
    /\ \A i, j \in 1..Len(file.entries) :
           Identity(file.entries[i].email) = Identity(file.entries[j].email)
               => i = j
    /\ \A a, b \in table : Identity(a.email) = Identity(b.email) => a = b

\* Two emails are stored by overlapping requests and a differently-cased
\* register of one of them has been turned away.
C1_Witness ==
    /\ overlapped
    /\ StoredCount = 2
    /\ last.op = "register"
    /\ last.body.email = E_A
    /\ last.detail = ConflictDetail

\* C2: without overlapping requests, a register of a valid email that is
\* not stored, with consent true and no storage fault, returns 200 with a
\* fresh id, raises the count stats reports by exactly one, and leaves the
\* email stored (so that an identical register is a duplicate).
TotalSubscribers ==
    IF mode = "lambda" THEN handle_get_stats_total ELSE get_waitlist_stats_total

C2_RegisterAddsOne ==
    [][(/\ Answers
        /\ last'.op = "register"
        /\ last'.body.consent = "true"
        /\ last'.body.consent_timestamp # Absent
        /\ ValidEmail(last'.body.email)
        /\ ~IsStored(Identity(last'.body.email))
        /\ ~last'.faulted)
       => (/\ last'.status = 200
           /\ last'.id > 0
           /\ \A x \in StoredEntries : x.id # last'.id
           /\ TotalSubscribers' = TotalSubscribers + 1
           /\ IsStoredNext(Identity(last'.body.email)))]_vars

\* C3: a register that passes validation and names an email already stored,
\* in the same or another letter case, is answered 400 "already on the
\* waitlist" at once, and the stored collection is left as it was.
C3_DuplicateRejected ==
    [][(/\ Arrives
        /\ NewestOp' = "register"
        /\ PassesValidation(NewestBody')
        /\ IsStored(Identity(NewestBody'.email))
        /\ ~NewestFaulted')
       => (/\ NewestAnswered'
           /\ last'.status = 400
           /\ last'.detail = ConflictDetail
           /\ StoredSame)]_vars

\* The stored "a@b.co" has turned away a register of "A@B.co".
C3_Witness ==
    /\ ~overlapped
    /\ last.op = "register"
    /\ last.body.email = E_A
    /\ last.status = 400
    /\ last.detail = ConflictDetail
    /\ \E x \in StoredEntries : x.email = E_a /\ x.id = 1

\* C4: a register whose body is an object (or is left out, which reads as
\* the empty object) with consent false or missing is answered at once with
\* a validation error, whatever the email string and whether or not it is
\* stored, and the stored collection is left as it was.
C4_NoConsentRejected ==
    [][(/\ Arrives
        /\ NewestOp' = "register"
        /\ NewestBody'.shape \in {"object", "no_body"}
        /\ NewestBody'.consent \in {"false", Absent})
       => (/\ NewestAnswered'
           /\ IsValidationError(last')
           /\ StoredSame)]_vars

\* A register with consent false of an email that is stored was turned away.
C4_Witness ==
    /\ last.op = "register"
    /\ last.body.consent = "false"
    /\ last.body.email = E_a
    /\ IsStored(Identity(E_a))
    /\ IsValidationError(last)

\* C5: every persisted entry has consent equal to the boolean true, and a
\* register answered 200 carried consent equal to the boolean true.
C5_ConsentExactlyTrue ==
    /\ \A x \in StoredEntries : x.consent = "true"
    /\ (last.op = "register" /\ last.status = 200) => last.body.consent = "true"

\* C6: a deregister of a valid email that is not stored is answered 404 at
\* once and leaves the stored collection as it was, in every mode.
C6_UnknownEmailNotFound ==
    [][(/\ Arrives
        /\ NewestOp' = "deregister"
        /\ ValidEmail(NewestBody'.email)
        /\ ~IsStored(Identity(NewestBody'.email))
        /\ ~NewestFaulted')
       => (/\ NewestAnswered'
           /\ last'.status = 404
           /\ StoredSame)]_vars

\* C7: without overlapping requests, a deregister that follows the successful
\* register of the same email, in any letter case, is answered 200, removes
\* the entry that register stored and no other, and takes the count stats
\* reports down by the one the register added; the same deregister repeated
\* at once is answered 404.
SameEmail(r1, r2) == Identity(r1.body.email) = Identity(r2.body.email)

C7_RoundTrip ==
    [][(/\ Answers
        /\ last'.op = "deregister"
        /\ ValidEmail(last'.body.email)
        /\ SameEmail(last, last')
        /\ last.status = 200
        /\ ~last'.faulted)
       => (/\ last.op = "register"
              => /\ last'.status = 200
                 /\ \E x \in StoredEntries :
                        /\ x.id = last.id
                        /\ StoredEntries' = StoredEntries \ {x}
                 /\ TotalSubscribers' = TotalSubscribers - 1
           /\ last.op = "deregister" => last'.status = 404)]_vars

\* C8: without overlapping requests, an email goes from absent to present
\* only in the step that answers 200 to a register of it, and from present
\* to absent only in the step that answers 200 to a deregister of it; and a
\* register, with consent true, of a valid email whose deregister was just
\* answered 200 is answered 200 and stores a new entry.
C8_OnlyTwoTransitions ==
    \A e \in Identities :
        /\ (~IsStored(e) /\ IsStoredNext(e))
               => /\ Answers
                  /\ last'.op = "register"
                  /\ last'.status = 200
                  /\ Identity(last'.body.email) = e
        /\ (IsStored(e) /\ ~IsStoredNext(e))
               => /\ Answers
                  /\ last'.op = "deregister"
                  /\ last'.status = 200
                  /\ Identity(last'.body.email) = e

C8_CycleRepeats ==
    (/\ Answers
     /\ last'.op = "register"
     /\ last'.body.consent = "true"
     /\ PassesValidation(last'.body)
     /\ ~last'.faulted
     /\ last.op = "deregister"
     /\ last.status = 200
     /\ SameEmail(last, last'))
    => (/\ last'.status = 200
        /\ \A x \in StoredEntries : x.id # last'.id
        /\ \E x \in StoredEntries' :
               x.id = last'.id /\ Identity(x.email) = Identity(last'.body.email))

C9_StatsCountsEntries ==
    [][(Answers /\ last'.op = "stats" /\ ~last'.faulted)
       => (/\ last'.status = 200
           /\ last'.count = StoredCount
           /\ StoredSame)]_vars

\* C10 as claimed: under any interleaving of requests, no step changes the
\* entry stored for an email that is stored before and after the step.
Unmodified ==
    \A e \in Identities :
        (IsStored(e) /\ IsStoredNext(e)) => EntriesOf(e)' = EntriesOf(e)

C10_NeverModified == [][Unmodified]_vars

\* C10 amended: as long as no two requests have overlapped, no step changes
\* the entry stored for an email that is stored before and after the step.
C10_UnmodifiedWithoutOverlap == [][~overlapped' => Unmodified]_vars

\* The entry stored first is as it was stored, after a later register of the
\* same email in another letter case was turned away.
C10_Witness ==
    /\ ~overlapped
    /\ last.n = 3
    /\ last.op = "register"
    /\ last.status = 400
    /\ Identity(last.body.email) = Identity(E_a)
    /\ \E x \in StoredEntries :
           /\ x.email = Identity(E_a)
           /\ x.id = 1
           /\ x.created_at = 1

\* C11: two registers of one email can both pass the existence check before
\* either writes.  Whatever passed the check before it, the write of a
\* register that does not fault answers 200 with the id the request drew,
\* and leaves exactly one entry for the email, the one it has just written.
C11_LastWriteWins ==
    [][\A p \in Procs :
           (/\ procs[p].pc = "write"
            /\ procs[p].op = "register"
            /\ procs'[p].pc = "idle"
            /\ ~last'.faulted)
           => (/\ last'.status = 200
               /\ last'.id = procs[p].id
               /\ \E x \in StoredEntries' :
                      /\ x.id = procs[p].id
                      /\ EntriesOfNext(procs[p].email) = {x})]_vars

\* Two registers of "a@b.co" loaded the empty file before either saved; both
\* were answered 200, the one that drew id 1 last, and its entry is the only
\* one in the file.
C11_Witness ==
    /\ mode = "file"
    /\ overlapped
    /\ InFlight = {}
    /\ clock = 2
    /\ nextId = 3
    /\ latest[Identity(E_a)] = "register"
    /\ \A e \in Identities \ {Identity(E_a)} : latest[e] = "none"
    /\ last.status = 200
    /\ last.id = 1
    /\ Len(file.entries) = 1
    /\ file.entries[1].id = 1

\* C12: in file mode every save rewrites the whole document from the list
\* its request read.  As long as no two requests have overlapped, every
\* email whose latest success is a register is in the file; once two
\* requests overlap, one writer's entry can be lost (the witness).
C12_LostOnlyWhenOverlapped ==
    (IS_LOCAL /\ ~overlapped)
        => \A e \in Identities : latest[e] = "register" => IsStored(e)

\* Two registers, of "a@b.co" and of "c@b.co", read the file before either
\* saved; both were answered 200 and the file holds one of the two emails.
C12_Witness ==
    /\ mode = "file"
    /\ clock = 2
    /\ InFlight = {}
    /\ latest[Identity(E_a)] = "register"
    /\ latest[Identity(E_c)] = "register"
    /\ Len(file.entries) = 1
    /\ IsStored(Identity(E_a)) # IsStored(Identity(E_c))

\* C13: a register whose body is an object with an email string that is not
\* syntactically valid is answered at once with 400 "Invalid email address",
\* and the stored collection and the count stats reports are left as they
\* were, in both entrypoints.
C13_InvalidEmail400 ==
    [][(/\ Arrives
        /\ NewestOp' = "register"
        /\ NewestBody'.shape = "object"
        /\ ~ValidEmail(NewestBody'.email))
       => (/\ NewestAnswered'
           /\ last'.status = 400
           /\ last'.detail = InvalidEmailDetail
           /\ StoredSame
           /\ TotalSubscribers' = TotalSubscribers)]_vars

\* C14: a deregister whose normalized email is not syntactically valid is
\* answered at once with 400, and neither the file nor the table is touched
\* by it, in both entrypoints.
C14_InvalidDeregister400 ==
    [][(/\ Arrives
        /\ NewestOp' = "deregister"
        /\ ~ValidEmail(NewestBody'.email))
       => (/\ NewestAnswered'
           /\ last'.status = 400
           /\ file' = file
           /\ table' = table)]_vars

\* C15: without overlapping requests, a register with consent true of a
\* valid email that is not stored, whose body leaves out consent_timestamp
\* or source, is answered 200 when no storage call faults; the entry it
\* stores has a consent_timestamp made by the server when the body had
\* none, and the source "landing_page" when the body had none.
C15_OptionalMembersDefaulted ==
    [][(/\ Answers
        /\ last'.op = "register"
        /\ last'.body.shape = "object"
        /\ last'.body.consent = "true"
        /\ ValidEmail(last'.body.email)
        /\ ~IsStored(Identity(last'.body.email))
        /\ ~last'.faulted
        /\ Absent \in {last'.body.consent_timestamp, last'.body.source})
       => (/\ last'.status = 200
           /\ \E x \in EntriesOfNext(Identity(last'.body.email)) :
                  /\ x.id = last'.id
                  /\ last'.body.consent_timestamp = Absent
                         => x.consent_timestamp.by = "server"
                  /\ last'.body.source = Absent => x.source = DefaultSource)]_vars

\* C16: a storage call that fails ends its request in the same step: the
\* request is answered 500 with one of the generic database messages, no
\* later storage step of the request follows, and the stored collection is
\* left as it was.
GenericFaultDetails ==
    {"Database error", "Failed to save to database",
     "Failed to remove from database"}

C16_FaultAnswered500 ==
    [][/\ (Arrives /\ NewestFaulted') => NewestAnswered'
       /\ (Answers /\ last'.faulted)
              => (/\ last'.status = 500
                  /\ last'.detail \in GenericFaultDetails
                  /\ StoredSame)]_vars

\* C17: in file mode, a stats request, a register that passes validation
\* and a deregister that arrive while the stored document is malformed are
\* answered 500 at once, and the document is left as it was.
C17_MalformedIsFault ==
    [][(/\ IS_LOCAL
        /\ file.kind = "malformed"
        /\ Arrives
        /\ NewestOp' = "register" => PassesValidation(NewestBody'))
       => (/\ NewestAnswered'
           /\ last'.status = 500
           /\ file' = file)]_vars

\* C18: every request of the Lambda entrypoint that has ended has returned
\* a response with a status code; no exception has escaped the handler.
C18_AlwaysResponds ==
    (mode = "lambda" /\ last.n > 0)
        => (last.status # Escaped /\ last.status \in {200, 400, 404, 500})

\* C19: register validates the email first and the consent second, and the
\* first failure is the response.  A register with an invalid email is
\* answered with the invalid-email error and not the consent error; a
\* response that carries the consent error belongs to a valid email; and a
\* register that fails validation is answered at once, with no storage
\* call made and file and table untouched.
NamesEmail(r) == r.detail = InvalidEmailDetail \/ "email" \in r.errs

NamesConsent(r) == r.detail = ConsentDetail \/ "consent" \in r.errs

C19_FirstFailureWins ==
    [][(/\ Arrives
        /\ NewestOp' = "register"
        /\ NewestBody'.shape = "object")
       => (/\ ~ValidEmail(NewestBody'.email)
                  => (/\ NewestAnswered'
                      /\ NamesEmail(last')
                      /\ ~NamesConsent(last'))
           /\ (NewestAnswered' /\ NamesConsent(last'))
                  => ValidEmail(NewestBody'.email)
           /\ ~PassesValidation(NewestBody')
                  => (/\ NewestAnswered'
                      /\ IsValidationError(last')
                      /\ ~last'.faulted
                      /\ file' = file
                      /\ table' = table))]_vars

\* C20 as claimed: under any interleaving of requests and in every mode, an
\* email whose latest success is a deregister (no register of it has been
\* answered 200 since) is not stored.
C20_RemovalDurable ==
    \A e \in Identities : latest[e] = "deregister" => ~IsStored(e)

\* C20 amended: the same in the two table-backed modes under any
\* interleaving, and in file mode as long as no two requests have
\* overlapped.
C20_RemovalDurableOnTable ==
    (~IS_LOCAL \/ ~overlapped) => C20_RemovalDurable

\* In the Lambda entrypoint the deregister of "a@b.co" was answered 200
\* while a register of "c@b.co" was in flight; that register has since been
\* answered 200, and "a@b.co" is still absent.
C20_Witness ==
    /\ mode = "lambda"
    /\ overlapped
    /\ latest[Identity(E_a)] = "deregister"
    /\ ~IsStored(Identity(E_a))
    /\ last.op = "register"
    /\ last.status = 200
    /\ Identity(last.body.email) = Identity(E_c)
    /\ IsStored(Identity(E_c))

====
